---- MODULE Spec2Model ----
(***************************************************************************)
(* A model of fontdemo.py: unpacking of FreeType monochrome bitmaps,       *)
(* glyph metrics, the Bitmap canvas with its bitblt, and the two text      *)
(* passes of Font (text_dimensions and render_text).                       *)
(*                                                                         *)
(* Python values are modelled as follows: a list is a sequence, None is    *)
(* the string "None", a raised exception is recorded by its class name in  *)
(* an "error" field ("None" when nothing was raised).                      *)
(***************************************************************************)
EXTENDS Integers, Sequences, FiniteSets, TLC

VARIABLES
    pc,         \* the position of the running call
    ubitmap,    \* unpack: the FT bitmap handed to Glyph.unpack_mono_bitmap
    uresult,    \* unpack: what the call produced
    slot,       \* glyph: the FT glyph slot handed to Glyph.from_glyphslot
    glyph,      \* glyph: what Glyph.from_glyphslot produced
    bpixels,    \* canvas: the pixels argument of the Bitmap constructor
    dst,        \* canvas: the Bitmap that bitblt is called on (self)
    src,        \* canvas: the source Bitmap of the last bitblt
    bx,         \* canvas: the x of the last bitblt
    by,         \* canvas: the y of the last bitblt
    before,     \* canvas: the pixels of dst before the first bitblt
    once,       \* canvas: the pixels of dst after the first bitblt
    berror,     \* canvas: the exception the last bitblt raised
    face,       \* font: the FreeType face (glyph slot of each character, kerning)
    op,         \* font: the method of Font that was called
    text,       \* font: its text argument
    args,       \* font: the width, height and baseline arguments of render_text
    i,          \* font: the place in text of the character the loop is at
    previous_char,
    td_width,   \* font: width in text_dimensions
    max_ascent,
    max_descent,
    dims,       \* font: what text_dimensions returned
    measured,   \* font: the number of runs of text_dimensions
    width,      \* font: width in render_text
    height,
    baseline,
    x,
    outbuffer,
    blits,      \* font: the bitblt calls made on outbuffer, in order
    error       \* font: the exception that ended the call

uvars == <<ubitmap, uresult>>
gvars == <<slot, glyph>>
bvars == <<bpixels, dst, src, bx, by, before, once, berror>>
tvars == <<face, op, text, args, i, previous_char, td_width, max_ascent,
           max_descent, dims, measured, width, height, baseline, x, outbuffer,
           blits, error>>
vars == <<pc, ubitmap, uresult, slot, glyph, bpixels, dst, src, bx, by, before,
          once, berror, face, op, text, args, i, previous_char, td_width,
          max_ascent, max_descent, dims, measured, width, height, baseline, x,
          outbuffer, blits, error>>

None == "None"

(***************************************************************************)
(* Bounds of the model.                                                    *)
(***************************************************************************)
MaxRows == 2
MaxPitch == 2
MaxBufLen == 4
MaxGlyphDim == 3
MaxTop == 5
MaxCanvasDim == 2
MaxSrcDim == 2
MaxOffset == 2
MaxTextLen == 3

\* Byte values the packed buffers are drawn from: 0b00000000, 0b10110000 and
\* 0b10111111 (the last two differ only in their low four bits).
ByteVals == {0, 176, 191}
\* Declared bitmap widths: none, inside one byte, a full byte, into the
\* second byte, two full bytes, and more than two bytes hold.
WidthVals == {0, 1, 4, 8, 9, 16, 17}

Max(a, b) == IF a >= b THEN a ELSE b

RECURSIVE SeqsUpTo(_, _)
SeqsUpTo(S, n) ==
    IF n = 0 THEN {<<>>}
    ELSE LET shorter == SeqsUpTo(S, n - 1)
         IN shorter \cup {Append(s, e) : s \in {t \in shorter : Len(t) = n - 1}, e \in S}

(***************************************************************************)
(* Glyph.unpack_mono_bitmap                                                *)
(***************************************************************************)

\* int.from_bytes(row, 'big') with the bytes in the other order.
RECURSIVE IntFromBytesLittle(_)
IntFromBytesLittle(row) ==
    IF row = <<>> THEN 0
    ELSE Head(row) + 256 * IntFromBytesLittle(Tail(row))

\* int.from_bytes(row, 'big')
RECURSIVE IntFromBytes(_)
IntFromBytes(row) ==
    IF row = <<>> THEN 0
    ELSE IntFromBytes(SubSeq(row, 1, Len(row) - 1)) * 256 + row[Len(row)]

\* The digits of format(n, 'b') for n >= 0, most significant first.
RECURSIVE BinaryDigits(_)
BinaryDigits(n) ==
    IF n < 2 THEN <<n>>
    ELSE Append(BinaryDigits(n \div 2), n % 2)

\* f'{n:0{w}b}': the binary digits of n, zero-filled on the left to w
\* characters (never cut).
FormatBinary(n, w) ==
    LET d == BinaryDigits(n)
    IN IF Len(d) >= w THEN d
       ELSE [k \in 1..(w - Len(d)) |-> 0] \o d

\* Python's s[:w].
SliceTo(s, w) ==
    IF w >= 0 THEN SubSeq(s, 1, IF w < Len(s) THEN w ELSE Len(s))
    ELSE SubSeq(s, 1, Len(s) + w)

\* zip(*[iter(buffer)] * pitch): consecutive groups of pitch bytes, an
\* incomplete last group dropped; zip() of no iterators yields nothing.
RowChunks(buffer, pitch) ==
    IF pitch <= 0 THEN <<>>
    ELSE [r \in 1..(Len(buffer) \div pitch) |->
            SubSeq(buffer, (r - 1) * pitch + 1, r * pitch)]

\* assert len(bitmap.buffer) >= bitmap.rows * bitmap.pitch
BufferLengthAtLeast(bitmap) == Len(bitmap.buffer) >= bitmap.rows * bitmap.pitch

\* assert len(bitmap.buffer) == bitmap.rows * bitmap.pitch
BufferLengthOk(bitmap) == Len(bitmap.buffer) = bitmap.rows * bitmap.pitch

\* The loop over the rows, data being the list built so far.
RECURSIVE UnpackRows(_, _, _)
UnpackRows(chunks, bitmap, data) ==
    IF chunks = <<>>
    THEN IF Len(data) = bitmap.rows * bitmap.width
         THEN [error |-> None, data |-> data]
         ELSE [error |-> "AssertionError", data |-> <<>>]
    ELSE LET row_int == IntFromBytes(Head(chunks))
             bin_str == SliceTo(FormatBinary(row_int, bitmap.pitch * 8), bitmap.width)
         IN IF Len(bin_str) # bitmap.width
            THEN [error |-> "AssertionError", data |-> <<>>]
            ELSE UnpackRows(Tail(chunks), bitmap,
                            data \o [k \in 1..Len(bin_str) |-> bin_str[k] = 1])

UnpackMonoBitmap(bitmap) ==
    IF ~BufferLengthOk(bitmap)
    THEN [error |-> "AssertionError", data |-> <<>>]
    ELSE UnpackRows(RowChunks(bitmap.buffer, bitmap.pitch), bitmap, <<>>)

NoBitmap == [buffer |-> <<>>, width |-> 0, rows |-> 0, pitch |-> 0]
NotCalled == [error |-> "NotCalled", data |-> <<>>]

UnpackInputs ==
    [buffer : SeqsUpTo(ByteVals, MaxBufLen), width : WidthVals,
     rows : 0..MaxRows, pitch : 0..MaxPitch]

(***************************************************************************)
(* Bitmap.__init__                                                         *)
(***************************************************************************)

\* [False for __ in range(n)]: range of a negative number is empty.
FalseList(n) == [k \in 1..n |-> FALSE]

\* Bitmap(width, height, pixels): pixels is <<>> for the default None, and
\* <<list>> for a list that is kept as given. No argument is validated.
BitmapNew(w, h, given) ==
    [width |-> w,
     height |-> h,
     pixels |-> IF given = <<>> THEN FalseList(w * h) ELSE given[1]]

(***************************************************************************)
(* Glyph.__init__ and Glyph.from_glyphslot                                 *)
(***************************************************************************)

\* self.descent = self.height - self.top, the clamp at 0 left out.
GlyphDescentUnclamped(h, top) == h - top

\* self.descent = max(0, self.height - self.top)
GlyphDescent(h, top) == Max(0, h - top)

\* self.ascent = max(0, max(self.top, self.height) - self.descent)
GlyphAscent(h, top) == Max(0, Max(top, h) - GlyphDescent(h, top))

GlyphNew(pixels, w, h, top, advance_width) ==
    [bitmap |-> BitmapNew(w, h, <<pixels>>),
     top |-> top,
     descent |-> GlyphDescent(h, top),
     ascent |-> GlyphAscent(h, top),
     advance_width |-> advance_width]

NoGlyph == [error |-> "NotCalled", bitmap |-> BitmapNew(0, 0, <<>>),
            top |-> 0, descent |-> 0, ascent |-> 0, advance_width |-> 0]

\* Glyph.from_glyphslot(slot): the Glyph, with error "None", or the exception
\* of unpack_mono_bitmap.
FromGlyphslot(s) ==
    LET unpacked == UnpackMonoBitmap(s.bitmap)
    IN IF unpacked.error # None
       THEN [NoGlyph EXCEPT !.error = unpacked.error]
       ELSE [error |-> None] @@
            GlyphNew(unpacked.data, s.bitmap.width, s.bitmap.rows,
                     s.bitmap_top, s.advance_x \div 64)

NoSlot == [bitmap |-> NoBitmap, bitmap_top |-> 0, advance_x |-> 0]

\* Glyph slots: rows of 0b10110000, one byte a row (or a pitch of 0, which
\* FreeType gives an empty bitmap), any top, advances in 1/64 pixel.
GlyphSlots ==
    {[bitmap |-> [buffer |-> [k \in 1..(r * p) |-> 176], width |-> w,
                  rows |-> r, pitch |-> p],
      bitmap_top |-> t, advance_x |-> a] :
        w \in 0..MaxGlyphDim, r \in 0..MaxGlyphDim, p \in 0..1,
        t \in (0 - MaxTop)..MaxTop, a \in {0, 100, 640}}

(***************************************************************************)
(* Bitmap.bitblt                                                           *)
(***************************************************************************)

\* Whether list[i] raises IndexError for a list of n elements.
IndexError(n, k) == k >= n \/ k < 0 - n

\* The position, from 1, of list[i] in a list of n elements (a negative i
\* counts from the end).
ListPos(n, k) == IF k >= 0 THEN k + 1 ELSE n + k + 1

\* a ^ b
PixelXor(a, b) == a # b

\* a or b
PixelOr(a, b) == a \/ b

\* The two loops of bitblt from (sy, sx) on, with the exception that ended
\* them ("None" when they ran to the end).
RECURSIVE BitbltLoop(_, _, _, _, _, _, _)
BitbltLoop(pixels, s, srcpixel, dstpixel, sy, sx, row_offset) ==
    IF sy >= s.height
    THEN [pixels |-> pixels, error |-> None]
    ELSE IF sx >= s.width
    THEN BitbltLoop(pixels, s, srcpixel, dstpixel + row_offset, sy + 1, 0, row_offset)
    ELSE IF IndexError(Len(pixels), dstpixel)
    THEN [pixels |-> pixels, error |-> "IndexError"]
    ELSE LET d == ListPos(Len(pixels), dstpixel)
             srcbad == IndexError(Len(s.pixels), srcpixel)
         IN \* "or" reads src.pixels only when self.pixels[dstpixel] is False
            IF ~pixels[d] /\ srcbad
            THEN [pixels |-> pixels, error |-> "IndexError"]
            ELSE BitbltLoop(
                    [pixels EXCEPT ![d] =
                        IF srcbad THEN pixels[d]
                        ELSE PixelOr(pixels[d], s.pixels[ListPos(Len(s.pixels), srcpixel)])],
                    s, srcpixel + 1, dstpixel + 1, sy, sx + 1, row_offset)

\* self.bitblt(s, x, y): the pixels of self afterwards and the exception.
Bitblt(self, s, x0, y0) ==
    BitbltLoop(self.pixels, s, 0, y0 * self.width + x0, 0, 0, self.width - s.width)

\* Pixel lists the callers pass: every pixel set, or every other one.
PixelPattern(name, n) ==
    [k \in 1..n |-> IF name = "full" THEN TRUE ELSE k % 2 = 1]

Sources ==
    {BitmapNew(w, h, <<PixelPattern(name, w * h)>>) :
        w \in 0..MaxSrcDim, h \in 0..MaxSrcDim, name \in {"full", "odd"}}

NoPixels == <<>>

(***************************************************************************)
(* Font                                                                    *)
(***************************************************************************)
Chars == {"A", "B"}

\* An unspecified (None) argument is <<>>, a specified one <<value>>.
Unspecified == <<>>

MonoSlot(buffer, w, rows, pitch, top, advance_x) ==
    [bitmap |-> [buffer |-> buffer, width |-> w, rows |-> rows, pitch |-> pitch],
     bitmap_top |-> top, advance_x |-> advance_x]

\* Glyph slots FreeType may hold for "A": a 2x2 block on the baseline that
\* advances 10 pixels; a 3x1 stroke under the baseline that advances 100/64,
\* so 1 pixel, less than its width; a 1x2 stem whose top is under the baseline.
SlotsA ==
    {MonoSlot(<<192, 192>>, 2, 2, 1, 2, 640),
     MonoSlot(<<224>>, 3, 1, 1, 0, 100),
     MonoSlot(<<128, 128>>, 1, 2, 1, -1, 128)}

\* Glyph slots for "B": a dot high over the baseline; an empty bitmap that
\* does not advance; a 2x2 diagonal, padded to two bytes a row, that
\* advances 1 pixel.
SlotsB ==
    {MonoSlot(<<128>>, 1, 1, 1, 3, 128),
     MonoSlot(<<>>, 0, 0, 0, 0, 0),
     MonoSlot(<<128, 0, 64, 0>>, 2, 2, 2, 1, 64)}

\* Kerning vectors' x, in 1/64 pixel.
KernVals == {-128, -65, 0, 64}

\* The faces: a slot for each character and a kerning table. A pair whose
\* left character is None has no kerning data: FreeType looks None up as
\* character code 0, which is no glyph of the face.
Faces ==
    {[slots |-> [c \in Chars |-> IF c = "A" THEN sa ELSE sb],
      kerning |-> [pr \in (Chars \cup {None}) \X Chars |->
                      IF pr = <<"A", "B">> THEN kab
                      ELSE IF pr = <<"B", "A">> THEN kba
                      ELSE IF pr = <<"A", "A">> THEN kaa
                      ELSE IF pr = <<"B", "B">> THEN kbb
                      ELSE 0]] :
        sa \in SlotsA, sb \in SlotsB, kab \in KernVals, kba \in KernVals,
        kaa \in {-128, 0}, kbb \in {0}}

Texts == SeqsUpTo(Chars, MaxTextLen)

\* The (width, height, baseline) arguments of render_text.
RenderArgs(w, h, b) == [width |-> w, height |-> h, baseline |-> b]
ArgChoices ==
    {RenderArgs(Unspecified, Unspecified, Unspecified),
     RenderArgs(<<5>>, Unspecified, <<0>>),
     RenderArgs(Unspecified, <<2>>, <<1>>),
     RenderArgs(<<4>>, <<3>>, <<1>>)}

\* self.glyph_for_character(char)
GlyphForCharacter(char) == FromGlyphslot(face.slots[char])

\* self.kerning_offset(previous_char, char)
KerningOffset(prev, char) == face.kerning[<<prev, char>>] \div 64

\* the width of a character, its glyph's own width left out
MeasureAdvanceOnly(g, kerning_x) == g.advance_width + kerning_x

\* the width of a character, its glyph's advance left out
MeasureGlyphWidthOnly(g, kerning_x) == g.bitmap.width + kerning_x

\* max(glyph.advance_width + kerning_x, glyph.width + kerning_x)
MeasureAdvance(g, kerning_x) ==
    Max(g.advance_width + kerning_x, g.bitmap.width + kerning_x)

\* None in (width, height, baseline)
NeedsDimensions(a) ==
    Unspecified \in {a.width, a.height, a.baseline}

\* an argument of render_text kept when the caller gave it
ResolveKeepGiven(given, computed) ==
    IF given = Unspecified THEN computed ELSE given[1]

\* width, height, baseline = self.text_dimensions(text): each of the three
\* is the computed one, whatever the caller gave.
Resolve(given, computed) == computed

\* x += kerning_x, left out
BlitXNoKerning(x0, kerning_x) == x0

\* x += self.kerning_offset(previous_char, char)
BlitX(x0, kerning_x) == x0 + kerning_x

\* y = height - glyph.ascent - baseline
BlitY(h, g, b) == h - g.ascent - b

NoDims == [width |-> 0, height |-> 0, baseline |-> 0]

IdleFont ==
    /\ op = "None"
    /\ text = <<>>
    /\ args = RenderArgs(Unspecified, Unspecified, Unspecified)
    /\ i = 0
    /\ previous_char = None
    /\ td_width = 0
    /\ max_ascent = 0
    /\ max_descent = 0
    /\ dims = NoDims
    /\ measured = 0
    /\ width = 0
    /\ height = 0
    /\ baseline = 0
    /\ x = 0
    /\ outbuffer = BitmapNew(0, 0, <<>>)
    /\ blits = <<>>
    /\ error = None
    /\ face \in {[slots |-> [c \in Chars |-> NoSlot],
                  kerning |-> [pr \in (Chars \cup {None}) \X Chars |-> 0]]}

(***************************************************************************)
(* Specification of the unpacker: an FT bitmap is drawn, then unpacked.    *)
(***************************************************************************)
IdleUnpack == ubitmap = NoBitmap /\ uresult = NotCalled
IdleGlyph == slot = NoSlot /\ glyph = NoGlyph
IdleCanvas ==
    /\ bpixels = <<>>
    /\ dst = BitmapNew(0, 0, <<>>)
    /\ src = BitmapNew(0, 0, <<>>)
    /\ bx = 0
    /\ by = 0
    /\ before = NoPixels
    /\ once = NoPixels
    /\ berror = None

InitUnpack ==
    /\ pc = "call"
    /\ ubitmap \in UnpackInputs
    /\ uresult = NotCalled
    /\ IdleGlyph
    /\ IdleCanvas
    /\ IdleFont

Unpack ==
    /\ pc = "call"
    /\ uresult' = UnpackMonoBitmap(ubitmap)
    /\ pc' = "done"
    /\ UNCHANGED <<ubitmap, gvars, bvars, tvars>>

NextUnpack == Unpack

SpecUnpack == InitUnpack /\ [][NextUnpack]_vars

(***************************************************************************)
(* Specification of the glyph constructor: a glyph slot is drawn, then     *)
(* made a Glyph.                                                           *)
(***************************************************************************)
InitGlyph ==
    /\ pc = "call"
    /\ slot \in GlyphSlots
    /\ glyph = NoGlyph
    /\ IdleUnpack
    /\ IdleCanvas
    /\ IdleFont

GlyphFromSlot ==
    /\ pc = "call"
    /\ glyph' = FromGlyphslot(slot)
    /\ pc' = "done"
    /\ UNCHANGED <<slot, uvars, bvars, tvars>>

NextGlyph == GlyphFromSlot

SpecGlyph == InitGlyph /\ [][NextGlyph]_vars

(***************************************************************************)
(* Specification of the canvas: a Bitmap is constructed, a source is       *)
(* composited onto it, and the same call is made once more.                *)
(***************************************************************************)
InitCanvas ==
    /\ pc = "new"
    /\ IdleCanvas
    /\ IdleUnpack
    /\ IdleGlyph
    /\ IdleFont

\* Bitmap(width, height)
NewBitmap ==
    /\ pc = "new"
    /\ \E w \in -1..MaxCanvasDim, h \in -1..MaxCanvasDim :
          dst' = BitmapNew(w, h, <<>>)
    /\ bpixels' = <<>>
    /\ pc' = "blit"
    /\ UNCHANGED <<src, bx, by, before, once, berror, uvars, gvars, tvars>>

\* Bitmap(width, height, pixels)
NewBitmapWithPixels ==
    /\ pc = "new"
    /\ \E w \in 0..MaxCanvasDim, h \in 0..MaxCanvasDim :
          /\ bpixels' = <<PixelPattern("odd", w * h)>>
          /\ dst' = BitmapNew(w, h, bpixels')
    /\ pc' = "blit"
    /\ UNCHANGED <<src, bx, by, before, once, berror, uvars, gvars, tvars>>

\* dst.bitblt(s, x, y)
BitbltFirst ==
    /\ pc = "blit"
    /\ \E s \in Sources, x0 \in (0 - MaxOffset)..MaxOffset,
          y0 \in (0 - MaxOffset)..MaxOffset :
          LET r == Bitblt(dst, s, x0, y0)
          IN /\ src' = s
             /\ bx' = x0
             /\ by' = y0
             /\ before' = dst.pixels
             /\ dst' = [dst EXCEPT !.pixels = r.pixels]
             /\ once' = r.pixels
             /\ berror' = r.error
    /\ pc' = "again"
    /\ UNCHANGED <<bpixels, uvars, gvars, tvars>>

\* dst.bitblt(src, bx, by), the call repeated
BitbltAgain ==
    /\ pc = "again"
    /\ LET r == Bitblt(dst, src, bx, by)
       IN /\ dst' = [dst EXCEPT !.pixels = r.pixels]
          /\ berror' = r.error
    /\ pc' = "done"
    /\ UNCHANGED <<bpixels, src, bx, by, before, once, uvars, gvars, tvars>>

NextCanvas == NewBitmap \/ NewBitmapWithPixels \/ BitbltFirst \/ BitbltAgain

SpecCanvas == InitCanvas /\ [][NextCanvas]_vars

(***************************************************************************)
(* Specification of Font: on a face, text_dimensions or render_text is     *)
(* called with a text, and runs character after character.                 *)
(***************************************************************************)
Init ==
    /\ pc = "idle"
    /\ face \in Faces
    /\ op = "None"
    /\ text = <<>>
    /\ args = RenderArgs(Unspecified, Unspecified, Unspecified)
    /\ i = 0
    /\ previous_char = None
    /\ td_width = 0
    /\ max_ascent = 0
    /\ max_descent = 0
    /\ dims = NoDims
    /\ measured = 0
    /\ width = 0
    /\ height = 0
    /\ baseline = 0
    /\ x = 0
    /\ outbuffer = BitmapNew(0, 0, <<>>)
    /\ blits = <<>>
    /\ error = None
    /\ IdleUnpack
    /\ IdleGlyph
    /\ IdleCanvas

\* text_dimensions up to its loop
EnterTextDimensions ==
    /\ td_width' = 0
    /\ max_ascent' = 0
    /\ max_descent' = 0
    /\ previous_char' = None
    /\ i' = 1
    /\ measured' = measured + 1
    /\ pc' = "measure"

\* render_text from x = 0 up to its loop, on a canvas of w by h
EnterRenderLoop(w, h, b) ==
    /\ width' = w
    /\ height' = h
    /\ baseline' = b
    /\ x' = 0
    /\ previous_char' = None
    /\ outbuffer' = BitmapNew(w, h, <<>>)
    /\ i' = 1
    /\ pc' = "render"

\* font.text_dimensions(t) is called
CallTextDimensions ==
    /\ pc = "idle"
    /\ \E t \in Texts : text' = t
    /\ op' = "text_dimensions"
    /\ EnterTextDimensions
    /\ UNCHANGED <<face, args, dims, width, height, baseline, x, outbuffer,
                   blits, error, uvars, gvars, bvars>>

\* font.render_text(t, width, height, baseline) is called with one of the
\* three unspecified
CallRenderTextMeasuring ==
    /\ pc = "idle"
    /\ \E t \in Texts : text' = t
    /\ \E a \in ArgChoices : NeedsDimensions(a) /\ args' = a
    /\ op' = "render_text"
    /\ EnterTextDimensions
    /\ UNCHANGED <<face, dims, width, height, baseline, x, outbuffer,
                   blits, error, uvars, gvars, bvars>>

\* font.render_text(t, width, height, baseline) is called with all three
CallRenderTextSized ==
    /\ pc = "idle"
    /\ \E t \in Texts : text' = t
    /\ \E a \in ArgChoices :
          /\ ~NeedsDimensions(a)
          /\ args' = a
          /\ EnterRenderLoop(a.width[1], a.height[1], a.baseline[1])
    /\ op' = "render_text"
    /\ UNCHANGED <<face, td_width, max_ascent, max_descent, dims, measured,
                   blits, error, uvars, gvars, bvars>>

\* one turn of the loop of text_dimensions
MeasureChar ==
    /\ pc = "measure"
    /\ i <= Len(text)
    /\ LET char == text[i]
           g == GlyphForCharacter(char)
           kerning_x == KerningOffset(previous_char, char)
       IN IF g.error # None
          THEN /\ error' = g.error
               /\ pc' = "raised"
               /\ UNCHANGED <<i, previous_char, td_width, max_ascent, max_descent>>
          ELSE /\ max_ascent' = Max(max_ascent, g.ascent)
               /\ max_descent' = Max(max_descent, g.descent)
               /\ td_width' = td_width + MeasureAdvance(g, kerning_x)
               /\ previous_char' = char
               /\ i' = i + 1
               /\ UNCHANGED <<pc, error>>
    /\ UNCHANGED <<face, op, text, args, dims, measured, width, height,
                   baseline, x, outbuffer, blits, uvars, gvars, bvars>>

\* text_dimensions returns to its caller
TextDimensionsReturns ==
    /\ pc = "measure"
    /\ i > Len(text)
    /\ op = "text_dimensions"
    /\ dims' = [width |-> td_width, height |-> max_ascent + max_descent,
                baseline |-> max_descent]
    /\ pc' = "returned"
    /\ UNCHANGED <<face, op, text, args, i, previous_char, td_width, max_ascent,
                   max_descent, measured, width, height, baseline, x, outbuffer,
                   blits, error, uvars, gvars, bvars>>

\* text_dimensions returns to render_text, which goes on to its loop
TextDimensionsReturnsToRender ==
    /\ pc = "measure"
    /\ i > Len(text)
    /\ op = "render_text"
    /\ dims' = [width |-> td_width, height |-> max_ascent + max_descent,
                baseline |-> max_descent]
    /\ EnterRenderLoop(Resolve(args.width, dims'.width),
                       Resolve(args.height, dims'.height),
                       Resolve(args.baseline, dims'.baseline))
    /\ UNCHANGED <<face, op, text, args, td_width, max_ascent, max_descent,
                   measured, blits, error, uvars, gvars, bvars>>

\* one turn of the loop of render_text
RenderChar ==
    /\ pc = "render"
    /\ i <= Len(text)
    /\ LET char == text[i]
           g == GlyphForCharacter(char)
       IN IF g.error # None
          THEN /\ error' = g.error
               /\ pc' = "raised"
               /\ UNCHANGED <<i, previous_char, x, outbuffer, blits>>
          ELSE LET x1 == BlitX(x, KerningOffset(previous_char, char))
                   y == BlitY(height, g, baseline)
                   r == Bitblt(outbuffer, g.bitmap, x1, y)
               IN /\ blits' = Append(blits, [char |-> char, x |-> x1, y |-> y,
                                             bitmap |-> g.bitmap])
                  /\ outbuffer' = [outbuffer EXCEPT !.pixels = r.pixels]
                  /\ IF r.error # None
                     THEN /\ error' = r.error
                          /\ pc' = "raised"
                          /\ x' = x1
                          /\ UNCHANGED <<i, previous_char>>
                     ELSE /\ x' = x1 + g.advance_width
                          /\ previous_char' = char
                          /\ i' = i + 1
                          /\ UNCHANGED <<pc, error>>
    /\ UNCHANGED <<face, op, text, args, td_width, max_ascent, max_descent,
                   dims, measured, width, height, baseline, uvars, gvars, bvars>>

\* render_text returns outbuffer
RenderTextReturns ==
    /\ pc = "render"
    /\ i > Len(text)
    /\ pc' = "returned"
    /\ UNCHANGED <<tvars, uvars, gvars, bvars>>

Next ==
    \/ CallTextDimensions
    \/ CallRenderTextMeasuring
    \/ CallRenderTextSized
    \/ MeasureChar
    \/ TextDimensionsReturns
    \/ TextDimensionsReturnsToRender
    \/ RenderChar
    \/ RenderTextReturns

Spec == Init /\ [][Next]_vars

(***************************************************************************)
(* Properties of the unpacker (checked under SpecUnpack).                  *)
(***************************************************************************)

\* Bit i, counted from the most significant bit, of the pitch bytes of row r.
PackedBit(bitmap, r, col) ==
    (bitmap.buffer[r * bitmap.pitch + (col \div 8) + 1] \div (2 ^ (7 - (col % 8)))) % 2 = 1

\* C2: for a buffer of rows*pitch bytes with pitch*8 >= width, the call returns
\* rows*width booleans, row after row, entry (r, i) being bit i (MSB first) of
\* row r; the padding bits past width play no part, and no rows or no width
\* gives the empty list.
C2_UnpackBits ==
    (/\ pc = "done"
     /\ Len(ubitmap.buffer) = ubitmap.rows * ubitmap.pitch
     /\ ubitmap.pitch * 8 >= ubitmap.width)
    => /\ uresult.error = None
       /\ Len(uresult.data) = ubitmap.rows * ubitmap.width
       /\ \A r \in 0..(ubitmap.rows - 1), col \in 0..(ubitmap.width - 1) :
             uresult.data[r * ubitmap.width + col + 1] = PackedBit(ubitmap, r, col)
       /\ (ubitmap.width = 0 \/ ubitmap.rows = 0) => uresult.data = <<>>

\* C2 happens: [0b10110000] with width 4, rows 1, pitch 1 was unpacked to
\* [True, False, True, True].
C2_Witness ==
    /\ pc = "done"
    /\ ubitmap = [buffer |-> <<176>>, width |-> 4, rows |-> 1, pitch |-> 1]
    /\ uresult = [error |-> None, data |-> <<TRUE, FALSE, TRUE, TRUE>>]

\* C3 as stated: the call fails, and returns no pixel data, whenever the
\* buffer length differs from rows*pitch or pitch*8 < width, rows == 0 included.
C3_FailsOnEveryMalformed ==
    (/\ pc = "done"
     /\ \/ Len(ubitmap.buffer) # ubitmap.rows * ubitmap.pitch
        \/ ubitmap.pitch * 8 < ubitmap.width)
    => uresult.error = "AssertionError" /\ uresult.data = <<>>

\* C3 amended: the call fails, and returns no pixel data, whenever the buffer
\* length differs from rows*pitch, and whenever pitch*8 < width and rows > 0;
\* with rows == 0 and an empty buffer it returns the empty list.
C3_FailsOnMalformed ==
    /\ (/\ pc = "done"
        /\ \/ Len(ubitmap.buffer) # ubitmap.rows * ubitmap.pitch
           \/ ubitmap.pitch * 8 < ubitmap.width /\ ubitmap.rows > 0)
       => uresult.error = "AssertionError" /\ uresult.data = <<>>
    /\ (pc = "done" /\ ubitmap.rows = 0 /\ ubitmap.buffer = <<>>)
       => uresult = [error |-> None, data |-> <<>>]

\* C3 happens: a row of one byte declared 9 pixels wide was refused, and so
\* was a buffer one byte too long.
C3_Witness ==
    /\ pc = "done"
    /\ uresult.error = "AssertionError"
    /\ \/ /\ ubitmap.rows = 1 /\ ubitmap.pitch = 1 /\ ubitmap.width = 9
          /\ Len(ubitmap.buffer) = 1
       \/ /\ ubitmap.rows = 1 /\ ubitmap.pitch = 1 /\ ubitmap.width = 0
          /\ Len(ubitmap.buffer) = 2

(***************************************************************************)
(* Properties of the glyph metrics (checked under SpecGlyph).              *)
(***************************************************************************)
Max3(a, b, c) == Max(a, Max(b, c))

\* C9 as stated: ascent and descent are never negative and add up to
\* max(height, top, 0), so to the height whenever top <= height.
C9_AscentPlusDescent ==
    (pc = "done" /\ glyph.error = None)
    => /\ glyph.descent >= 0
       /\ glyph.ascent >= 0
       /\ glyph.ascent + glyph.descent = Max3(glyph.bitmap.height, glyph.top, 0)
       /\ glyph.top <= glyph.bitmap.height
          => glyph.ascent + glyph.descent = glyph.bitmap.height

\* C9 amended: ascent and descent are never negative and add up to
\* max(height, top, height - top), so to the height whenever
\* 0 <= top <= height, and to height - top when top is negative.
C9_AscentPlusDescentSpan ==
    (pc = "done" /\ glyph.error = None)
    => /\ glyph.descent = Max(0, glyph.bitmap.height - glyph.top)
       /\ glyph.ascent = Max(0, Max(glyph.top, glyph.bitmap.height) - glyph.descent)
       /\ glyph.descent >= 0
       /\ glyph.ascent >= 0
       /\ glyph.ascent + glyph.descent
             = Max3(glyph.bitmap.height, glyph.top, glyph.bitmap.height - glyph.top)
       /\ (0 <= glyph.top /\ glyph.top <= glyph.bitmap.height)
          => glyph.ascent + glyph.descent = glyph.bitmap.height
       /\ glyph.top < 0
          => glyph.ascent + glyph.descent = glyph.bitmap.height - glyph.top

\* C9 happens: a glyph two rows high whose top lies one row under the
\* baseline was constructed.
C9_Witness ==
    /\ pc = "done"
    /\ glyph.error = None
    /\ glyph.bitmap.height = 2
    /\ glyph.top = -1
    /\ glyph.descent = 3
    /\ glyph.ascent = 0

(***************************************************************************)
(* Properties of the canvas (checked under SpecCanvas).                    *)
(***************************************************************************)

\* Whether the call just made set the source onto a canvas that holds
\* width*height pixels.
Composited ==
    /\ pc = "again"
    /\ dst.width >= 0
    /\ dst.height >= 0
    /\ Len(dst.pixels) = dst.width * dst.height

\* Whether source pixel (sx, sy) exists and is set.
SourceSet(sx, sy) ==
    /\ sx \in 0..(src.width - 1)
    /\ sy \in 0..(src.height - 1)
    /\ src.pixels[sy * src.width + sx + 1]

\* C1: compositing at any offset raises nothing, ORs every source pixel that
\* falls inside the canvas onto the pixel at (x+sx, y+sy), and drops the
\* others, leaving every other canvas pixel as it was.
C1_ClippedCompositing ==
    Composited
    => /\ berror = None
       /\ Len(dst.pixels) = Len(before)
       /\ \A px \in 0..(dst.width - 1), py \in 0..(dst.height - 1) :
             dst.pixels[py * dst.width + px + 1]
                = (before[py * dst.width + px + 1] \/ SourceSet(px - bx, py - by))

\* C4: Bitmap(width, height) gives width*height pixels, all False, when
\* neither is negative, and no canvas when one is.
C4_NewBitmapChecksDimensions ==
    (pc = "blit" /\ bpixels = <<>>)
    => /\ dst.width >= 0
       /\ dst.height >= 0
       /\ Len(dst.pixels) = dst.width * dst.height
       /\ \A k \in 1..Len(dst.pixels) : ~dst.pixels[k]

\* C8: the same bitblt made a second time leaves the pixels as the first
\* call left them.
C8_BitbltIdempotent ==
    pc = "done" => dst.pixels = once

\* C8 happens: a canvas with pixels set was composited onto, which set more
\* of them, and the call was made again.
C8_Witness ==
    /\ pc = "done"
    /\ berror = None
    /\ once # before
    /\ \E k \in 1..Len(before) : before[k]
    /\ \E k \in 1..Len(once) : ~once[k]

(***************************************************************************)
(* Properties of Font (checked under Spec).                                *)
(***************************************************************************)

\* The glyph of the n-th character of text.
GlyphAt(n) == GlyphForCharacter(text[n])

\* The kerning offset applied at the n-th character: none at the first.
KerningAt(n) == IF n = 1 THEN 0 ELSE KerningOffset(text[n - 1], text[n])

\* The sum over the first n characters of
\* max(advance_width + kerning_x, glyph.width + kerning_x).
RECURSIVE SumOfWidths(_)
SumOfWidths(n) ==
    IF n = 0 THEN 0
    ELSE SumOfWidths(n - 1)
         + Max(GlyphAt(n).advance_width + KerningAt(n),
               GlyphAt(n).bitmap.width + KerningAt(n))

\* The greatest member of a finite set of integers.
Greatest(S) == CHOOSE m \in S : \A e \in S : m >= e

GreatestAscent == Greatest({0} \cup {GlyphAt(n).ascent : n \in 1..Len(text)})
GreatestDescent == Greatest({0} \cup {GlyphAt(n).descent : n \in 1..Len(text)})

\* C5: text_dimensions returns the sum over the characters of
\* max(advance_width + kerning_x, glyph.width + kerning_x), kerning_x being 0
\* for the first character, then the greatest ascent plus the greatest
\* descent, then the greatest descent; (0, 0, 0) for the empty text, and
\* max(advance_width, width) by ascent + descent for a single character.
C5_TextDimensions ==
    (measured = 1 /\ pc \in {"returned", "render", "raised"})
    => /\ dims.width = SumOfWidths(Len(text))
       /\ dims.height = GreatestAscent + GreatestDescent
       /\ dims.baseline = GreatestDescent
       /\ text = <<>> => dims = NoDims
       /\ Len(text) = 1
          => /\ dims.width = Max(GlyphAt(1).advance_width, GlyphAt(1).bitmap.width)
             /\ dims.height = GlyphAt(1).ascent + GlyphAt(1).descent

\* C5 happens: text_dimensions returned for a text of three characters whose
\* first glyph is wider than its advance and whose second is kerned back.
C5_Witness ==
    /\ pc = "returned"
    /\ op = "text_dimensions"
    /\ Len(text) = 3
    /\ GlyphAt(1).bitmap.width > GlyphAt(1).advance_width
    /\ KerningAt(2) < 0
    /\ dims.width = SumOfWidths(3)
    /\ dims.height > dims.baseline
    /\ dims.baseline > 0

\* The sum of the advance widths of the first n characters.
RECURSIVE SumOfAdvances(_)
SumOfAdvances(n) ==
    IF n = 0 THEN 0 ELSE SumOfAdvances(n - 1) + GlyphAt(n).advance_width

\* The sum of the kerning offsets of the adjacent pairs among the first n
\* characters.
RECURSIVE SumOfKernings(_)
SumOfKernings(n) ==
    IF n <= 1 THEN 0
    ELSE SumOfKernings(n - 1) + KerningOffset(text[n - 1], text[n])

\* C6: render_text composites the glyphs in the order of the text, the n-th
\* at x = the advance widths of the glyphs before it plus the kerning offsets
\* of the adjacent pairs up to it (none before the first character) and at
\* y = canvas height - ascent - baseline; "AB" with A advancing 10 and
\* kerning(A, B) = -2 puts B at x = 8.
C6_CompositingPositions ==
    /\ Len(blits) <= Len(text)
    /\ \A n \in 1..Len(blits) :
          /\ blits[n].char = text[n]
          /\ blits[n].bitmap = GlyphAt(n).bitmap
          /\ blits[n].x = SumOfAdvances(n - 1) + SumOfKernings(n)
          /\ blits[n].y = outbuffer.height - GlyphAt(n).ascent - baseline
    /\ pc = "returned" /\ op = "render_text" => Len(blits) = Len(text)
    /\ (/\ Len(blits) >= 2
        /\ text[1] = "A"
        /\ text[2] = "B"
        /\ GlyphAt(1).advance_width = 10
        /\ KerningOffset("A", "B") = -2)
       => blits[1].x = 0 /\ blits[2].x = 8

\* C6 happens: "AB" was rendered on a face where A advances 10 pixels and
\* kerning(A, B) is -2, and B was composited after A.
C6_Witness ==
    /\ pc = "returned"
    /\ op = "render_text"
    /\ text = <<"A", "B">>
    /\ GlyphAt(1).advance_width = 10
    /\ KerningOffset("A", "B") = -2
    /\ Len(blits) = 2
    /\ blits[2].char = "B"
    /\ blits[2].x = 8

\* C7: when one of width, height, baseline is unspecified, render_text takes
\* all three from text_dimensions, and the canvas has the measured width and
\* height; when all three are specified, text_dimensions is not run and the
\* canvas has the caller's width and height.
C7_ResolvedDimensions ==
    (op = "render_text" /\ pc \in {"render", "returned", "raised"})
    => IF NeedsDimensions(args)
       THEN /\ measured = 1
            /\ <<width, height, baseline>> = <<dims.width, dims.height, dims.baseline>>
            /\ outbuffer.width = dims.width
            /\ outbuffer.height = dims.height
            /\ Len(outbuffer.pixels) = Max(0, dims.width * dims.height)
       ELSE /\ measured = 0
            /\ <<width, height, baseline>>
                  = <<args.width[1], args.height[1], args.baseline[1]>>
            /\ outbuffer.width = args.width[1]
            /\ outbuffer.height = args.height[1]
            /\ Len(outbuffer.pixels) = args.width[1] * args.height[1]

\* C7 happens: render_text returned a canvas after a call that specified a
\* height and a baseline but no width, and the canvas has another height
\* than the caller's.
C7_Witness ==
    /\ pc = "returned"
    /\ op = "render_text"
    /\ args.width = Unspecified
    /\ args.height # Unspecified
    /\ args.baseline # Unspecified
    /\ outbuffer.height # args.height[1]
    /\ baseline # args.baseline[1]
    /\ measured = 1

\* Whether render_text sized its own canvas.
SizedByMeasuring == op = "render_text" /\ NeedsDimensions(args)

InsideHorizontally(b) == 0 <= b.x /\ b.x + b.bitmap.width <= outbuffer.width
InsideVertically(b) == 0 <= b.y /\ b.y + b.bitmap.height <= outbuffer.height

\* C10 as stated: when render_text sizes its own canvas, every glyph is
\* composited inside it, whatever the text, the metrics and the kerning.
C10_GlyphsInsideCanvas ==
    SizedByMeasuring
    => \A n \in 1..Len(blits) :
          InsideHorizontally(blits[n]) /\ InsideVertically(blits[n])

\* Whether no adjacent pair of the text is kerned back, and no glyph
\* advances backwards.
NoBackwardMove ==
    /\ \A n \in 2..Len(text) : KerningOffset(text[n - 1], text[n]) >= 0
    /\ \A n \in 1..Len(text) : GlyphAt(n).advance_width >= 0

\* Whether some composited glyph has pixel (px, py) of the canvas set.
GlyphSets(px, py) ==
    \E n \in 1..Len(blits) :
        LET b == blits[n]
        IN /\ px - b.x \in 0..(b.bitmap.width - 1)
           /\ py - b.y \in 0..(b.bitmap.height - 1)
           /\ b.bitmap.pixels[(py - b.y) * b.bitmap.width + (px - b.x) + 1]

\* C10 amended: when render_text sizes its own canvas, every glyph is
\* composited with 0 <= y and y + glyph.height <= canvas height; and when no
\* kerning offset between adjacent characters of the text is negative (and no
\* advance width is), also with 0 <= x and x + glyph.width <= canvas width,
\* so that bitblt raises nothing and the canvas holds the glyphs' pixels at
\* their places and no others.
C10_GlyphsInsideCanvasUnlessKernedBack ==
    SizedByMeasuring
    => /\ \A n \in 1..Len(blits) : InsideVertically(blits[n])
       /\ NoBackwardMove
          => /\ \A n \in 1..Len(blits) : InsideHorizontally(blits[n])
             /\ error = None
             /\ pc = "returned"
                => \A px \in 0..(outbuffer.width - 1), py \in 0..(outbuffer.height - 1) :
                      outbuffer.pixels[py * outbuffer.width + px + 1] = GlyphSets(px, py)

\* C10 happens: render_text sized its canvas and returned it for a text of
\* three characters with a glyph wider than its advance and a pair kerned
\* forward.
C10_Witness ==
    /\ pc = "returned"
    /\ SizedByMeasuring
    /\ NoBackwardMove
    /\ Len(text) = 3
    /\ \E n \in 1..3 : GlyphAt(n).bitmap.width > GlyphAt(n).advance_width
    /\ \E n \in 2..3 : KerningAt(n) > 0
    /\ \E k \in 1..Len(outbuffer.pixels) : outbuffer.pixels[k]

====
